---------------------------- MODULE Spec2Model ----------------------------
(* Model of src/SpaceShooter/SpaceShooter.ino: the 8x8 grid shooter.       *)
(* One pass of loop() is five steps, in the order of the source:           *)
(*   advanceBullet, updateLeds, enemyShoot, the progression check (with    *)
(*   the joystick read before it), and the cursor-move / reload-fire step. *)
EXTENDS Integers, Naturals, Sequences, FiniteSets, TLC

\* ---------------------------------------------------------------- constants
EMPTY == 0
BULLET == 1
ENEMY_BULLET == 2
ENEMY_A == 3
ENEMY_B == 4
ENEMY_C == 5
ENEMY_D == 6
CURSOR == 7

MOVE_INTERVAL == 100
RELOAD_TIME == 300
DEADZONE == 100
BULLET_INTERVAL == 100
NUM_WAVES == 10
WAVE_CAP == 99
DELAY_STEP == 50
DELAY_FLOOR == 200
BASE_DELAY == 1000
CURSOR_START == 4
FIRE_THRESHOLD == 50
BLINK_TIMES == 4
BLINK_DELAY_ARG == 500
LCD_PAUSE == 2000

\* ------------------------------------------------------------------- bounds
\* millis() is followed up to MaxTime; past it the clock no longer advances.
MaxTime == 1500
\* the clock advances by 0 or TickMs between two reads of millis()
TickMs == 100
\* steps of the cursor toward column 0 (cursorX--) that are followed
MaxDecrements == 1
\* sessions (calls of gameover) followed by the wave-arithmetic specification
MaxSessions == 2
\* waves cleared while every template of the catalog is drawn (SpecCatalog)
MaxCatalogWaves == 2
\* milliseconds of play followed with a template that has gaps (SpecGap)
MaxGapTime == 1000
\* milliseconds of play followed with the cursor under an empty column (SpecLane)
MaxLaneTime == 6000
\* milliseconds of play followed with the joystick free in both directions
\* (SpecCursor)
MaxCursorTime == 800

Rows == 0..7
Cols == 0..7
Enemies == {ENEMY_A, ENEMY_B, ENEMY_C, ENEMY_D}
Shooters == {ENEMY_B, ENEMY_C, ENEMY_D}

\* random(NUM_WAVES) is followed for these template indices (WAVE_4: index 3)
WaveChoices == {3}
\* every value random(NUM_WAVES) can return
AllWaves == 0..(NUM_WAVES - 1)
\* analogRead(VRX_PIN): one reading below the dead zone, the centre, one above.
\* xValue is written at the top of the progression step and read only by the
\* cursor step of the same pass, so the reading is drawn where it is used.
JoyValues == {0, 512, 1023}

\* a byte read outside the grid (grid[8][col], grid[-1][col]) is whatever the
\* neighbouring globals hold: any byte.  Bytes 7..255 fall in no branch of the
\* code, exactly as CURSOR does, so 0..7 covers every outcome.
OobBytes == 0..7

\* ---------------------------------------------------------- integer widths
Int16(x) == ((x + 32768) % 65536) - 32768
\* unsigned long (score and the millis() stamps): within MaxTime and MaxSessions no
\* value comes near 2^32 and no stamp exceeds the time it is subtracted from, so
\* these are plain naturals

\* ------------------------------------------------------------ wave catalog
WAVE_1 == << <<5,5,5,5,5,5,5,5>>, <<3,0,0,3,3,0,0,3>>, <<5,3,3,5,5,3,3,5>> >>
WAVE_2 == << <<3,0,3,0,3,0,3,0>>, <<5,0,5,0,5,0,5,0>>, <<3,0,5,0,5,0,3,0>> >>
WAVE_3 == << <<5,3,5,3,5,3,5,3>>, <<3,0,3,0,3,0,3,0>>, <<4,4,4,4,4,4,4,4>> >>
WAVE_4 == << <<4,5,4,0,0,4,5,4>>, <<6,3,6,0,0,6,3,6>>, <<3,4,3,0,0,3,4,3>> >>
WAVE_5 == << <<5,3,5,0,0,5,3,5>>, <<3,6,3,4,4,3,6,3>>, <<0,0,0,0,0,0,0,0>> >>
WAVE_6 == << <<0,3,6,6,6,6,3,0>>, <<0,0,3,6,6,3,0,0>>, <<0,0,0,3,3,0,0,0>> >>
WAVE_7 == << <<3,4,3,4,4,3,4,3>>, <<4,3,4,3,3,4,3,4>>, <<3,4,3,4,4,3,4,3>> >>
WAVE_8 == << <<5,0,0,0,0,0,0,5>>, <<4,5,0,0,0,0,5,4>>, <<4,4,5,0,0,5,4,4>> >>
WAVE_9 == << <<6,3,6,3,6,3,6,3>>, <<3,3,3,3,3,3,3,3>>, <<0,0,0,0,0,0,0,0>> >>
WAVE_10 == << <<4,4,4,4,4,4,4,4>>, <<3,3,3,3,3,3,3,3>>, <<5,4,5,4,5,4,5,4>> >>
WAVES == <<WAVE_1, WAVE_2, WAVE_3, WAVE_4, WAVE_5, WAVE_6, WAVE_7, WAVE_8, WAVE_9, WAVE_10>>

\* ------------------------------------------------------------------- state
\* grid .. lastEnemyShotTime are the globals of the sketch (lines 37-63).
\* now is the hardware clock behind millis(); pc is the step of loop() that
\* runs next.  gameovers counts the calls of gameover made by the last step,
\* renders the calls of updateLeds made inside them (initGame, line 165),
\* sessions the calls made so far (up to MaxSessions), decrements the
\* cursorX-- steps made so far, shotDraws the calls of random(100) made by
\* enemyShoot so far (the stream setupTargets draws its index from), age[r][c]
\* the due bullet-advance ticks the bullet standing in grid[r][c] has been
\* through since it was created (0 for a cell that holds no bullet).
\* The writes the code makes outside the grid (grid[8][col], grid[-1][col])
\* land in neighbouring globals the build chooses; the model follows the
\* grid and the globals above and lets those writes fall outside them.
VARIABLES grid, cursorX, score, enemies, kills, wave,
          baseEnemyShootDelay, enemyShootDelay,
          currentTime, lastMoveTime, lastShootMoveTime, lastShotTime, lastEnemyShotTime,
          now, pc, gameovers, renders, sessions, decrements, shotDraws, age

vars == <<grid, cursorX, score, enemies, kills, wave,
          baseEnemyShootDelay, enemyShootDelay,
          currentTime, lastMoveTime, lastShootMoveTime, lastShotTime, lastEnemyShotTime,
          now, pc, gameovers, renders, sessions, decrements, shotDraws, age>>

\* a cleared grid that also stores the cursor marker in the home row
EmptyGridWithCursor ==
    [r \in Rows |-> [c \in Cols |->
        IF r = 0 /\ c = CURSOR_START THEN CURSOR ELSE EMPTY]]

EmptyGrid == [r \in Rows |-> [c \in Cols |-> EMPTY]]

\* grid[r][c] as the code reads it: a row outside 0..7 reads the byte oob
Rd(g, r, c, oob) == IF r \in Rows THEN g[r][c] ELSE oob
\* grid[r][c] = v as the code writes it: a write outside the grid lands in
\* other globals and leaves the grid as it is
Wr(g, r, c, v) == IF r \in Rows THEN [g EXCEPT ![r][c] = v] ELSE g


\* the part of the program state that advanceBullet, gameover and initGame
\* pass through while one call runs
Machine == [g |-> grid, score |-> score, enemies |-> enemies, kills |-> kills,
            wave |-> wave, cursorX |-> cursorX, now |-> now,
            gameovers |-> 0, renders |-> 0, sessions |-> sessions]

\* ----------------------------------------------------------------- initGame
\* initGame without its line wave = 0
initGameKeepsWave(st) ==
    [st EXCEPT !.g = EmptyGrid, !.enemies = 0, !.score = 0, !.kills = 0,
               !.cursorX = CURSOR_START, !.renders = st.renders + 1]

initGame(st) ==
    [st EXCEPT !.g = EmptyGrid, !.enemies = 0, !.score = 0, !.kills = 0,
               !.wave = 0, !.cursorX = CURSOR_START, !.renders = st.renders + 1]

\* blink(uint8_t times, uint8_t delayTime): the argument 500 is cut to a byte
BlinkMs == BLINK_TIMES * 2 * (BLINK_DELAY_ARG % 256)

\* gameover: blink(4, 500); gameoverLCD() (two pauses, then initGame); initGame
gameover(st) ==
    LET paused == [st EXCEPT !.now = st.now + BlinkMs + 2 * LCD_PAUSE,
                             !.gameovers = st.gameovers + 1,
                             !.sessions = IF st.sessions < MaxSessions
                                          THEN st.sessions + 1 ELSE st.sessions]
    IN initGame(initGame(paused))

\* ------------------------------------------------------------ advanceBullet
\* a hit that takes two tiers off
DowngradeTwo(v) == IF v = ENEMY_D THEN ENEMY_B ELSE EMPTY

Downgrade(v) == IF v = ENEMY_D THEN ENEMY_C
                ELSE IF v = ENEMY_C THEN ENEMY_B
                ELSE EMPTY

\* a hit that scores nothing
HitScoreNone(v) == 0

HitScore(v) == IF v = ENEMY_A THEN 10
               ELSE IF v = ENEMY_B THEN 20
               ELSE IF v = ENEMY_C THEN 50
               ELSE 100

\* the player-bullet loop body with kills-- for kills++
PlayerCellDecrements(st, row, col, above) ==
    IF row > 0 THEN
        LET abovePos == Rd(st.g, row + 1, col, above)
            g1 == IF row = 7 THEN Wr(st.g, row, col, EMPTY) ELSE st.g
        IN IF Rd(g1, row + 1, col, above) = EMPTY
           THEN [st EXCEPT !.g = Wr(Wr(g1, row + 1, col, BULLET), row, col, EMPTY)]
           ELSE IF abovePos \in Enemies
           THEN [st EXCEPT !.g = Wr(Wr(g1, row + 1, col, Downgrade(abovePos)), row, col, EMPTY),
                           !.score = st.score + HitScore(abovePos) * st.wave,
                           !.kills = Int16(st.kills - 1)]
           ELSE IF abovePos = ENEMY_BULLET
           THEN [st EXCEPT !.g = Wr(Wr(g1, row + 1, col, EMPTY), row, col, EMPTY),
                           !.score = st.score + 1 * st.wave]
           ELSE [st EXCEPT !.g = g1]
    ELSE [st EXCEPT !.g = Wr(st.g, row, col, EMPTY)]

\* the player-bullet loop body with the intercept branch also counting a kill
PlayerCellInterceptKills(st, row, col, above) ==
    IF row > 0 THEN
        LET abovePos == Rd(st.g, row + 1, col, above)
            g1 == IF row = 7 THEN Wr(st.g, row, col, EMPTY) ELSE st.g
        IN IF Rd(g1, row + 1, col, above) = EMPTY
           THEN [st EXCEPT !.g = Wr(Wr(g1, row + 1, col, BULLET), row, col, EMPTY)]
           ELSE IF abovePos \in Enemies
           THEN [st EXCEPT !.g = Wr(Wr(g1, row + 1, col, Downgrade(abovePos)), row, col, EMPTY),
                           !.score = st.score + HitScore(abovePos) * st.wave,
                           !.kills = Int16(st.kills + 1)]
           ELSE IF abovePos = ENEMY_BULLET
           THEN [st EXCEPT !.g = Wr(Wr(g1, row + 1, col, EMPTY), row, col, EMPTY),
                           !.score = st.score + 1 * st.wave,
                           !.kills = Int16(st.kills + 1)]
           ELSE [st EXCEPT !.g = g1]
    ELSE [st EXCEPT !.g = Wr(st.g, row, col, EMPTY)]

\* the player-bullet loop body without the removal of a bullet in row 7
PlayerCellKeepsTop(st, row, col, above) ==
    IF row > 0 THEN
        LET abovePos == Rd(st.g, row + 1, col, above)
        IN IF abovePos = EMPTY
           THEN [st EXCEPT !.g = Wr(Wr(st.g, row + 1, col, BULLET), row, col, EMPTY)]
           ELSE IF abovePos \in Enemies
           THEN [st EXCEPT !.g = Wr(Wr(st.g, row + 1, col, Downgrade(abovePos)), row, col, EMPTY),
                           !.score = st.score + HitScore(abovePos) * st.wave,
                           !.kills = Int16(st.kills + 1)]
           ELSE IF abovePos = ENEMY_BULLET
           THEN [st EXCEPT !.g = Wr(Wr(st.g, row + 1, col, EMPTY), row, col, EMPTY),
                           !.score = st.score + 1 * st.wave]
           ELSE st
    ELSE [st EXCEPT !.g = Wr(st.g, row, col, EMPTY)]

\* body of the player-bullet loop for a cell that holds BULLET; above is the
\* byte grid[8][col]
PlayerCell(st, row, col, above) ==
    IF row > 0 THEN
        LET abovePos == Rd(st.g, row + 1, col, above)
            g1 == IF row = 7 THEN Wr(st.g, row, col, EMPTY) ELSE st.g
        IN IF Rd(g1, row + 1, col, above) = EMPTY
           THEN [st EXCEPT !.g = Wr(Wr(g1, row + 1, col, BULLET), row, col, EMPTY)]
           ELSE IF abovePos \in Enemies
           THEN [st EXCEPT !.g = Wr(Wr(g1, row + 1, col, Downgrade(abovePos)), row, col, EMPTY),
                           !.score = st.score + HitScore(abovePos) * st.wave,
                           !.kills = Int16(st.kills + 1)]
           ELSE IF abovePos = ENEMY_BULLET
           THEN [st EXCEPT !.g = Wr(Wr(g1, row + 1, col, EMPTY), row, col, EMPTY),
                           !.score = st.score + 1 * st.wave]
           ELSE [st EXCEPT !.g = g1]
    ELSE [st EXCEPT !.g = Wr(st.g, row, col, EMPTY)]

\* the inner loop of the player pass: columns 0 to 7 of one row
RECURSIVE PlayerCols(_, _, _, _)
PlayerCols(st, row, col, above) ==
    IF col = 8 THEN st
    ELSE IF st.g[row][col] = BULLET
    THEN PlayerCols(PlayerCell(st, row, col, above[col]), row, col + 1, above)
    ELSE PlayerCols(st, row, col + 1, above)

\* the outer loop of the player pass: row 7 down to row 0
RECURSIVE PlayerRows(_, _, _)
PlayerRows(st, row, above) ==
    IF row < 0 THEN st
    ELSE PlayerRows(PlayerCols(st, row, 0, above), row - 1, above)

\* the player pass with its outer loop running from row 0 up to row 7
RECURSIVE PlayerRowsUp(_, _, _)
PlayerRowsUp(st, row, above) ==
    IF row = 8 THEN st
    ELSE PlayerRowsUp(PlayerCols(st, row, 0, above), row + 1, above)

PlayerPassUp(st, above) == PlayerRowsUp(st, 0, above)

PlayerPass(st, above) == PlayerRows(st, 7, above)

\* the enemy-bullet loop body moving the bullet whatever its destination holds
EnemyCellOverwrites(st, row, col, below) ==
    [st EXCEPT !.g = Wr(Wr(st.g, row - 1, col, ENEMY_BULLET), row, col, EMPTY)]

\* the enemy-bullet loop body with a blocked bullet taking its destination
\* along
EnemyCellClearsBoth(st, row, col, below) ==
    IF Rd(st.g, row - 1, col, below) = EMPTY
    THEN [st EXCEPT !.g = Wr(Wr(st.g, row - 1, col, ENEMY_BULLET), row, col, EMPTY)]
    ELSE IF (row - 1 = 0 /\ col = st.cursorX) \/ (row = 0 /\ col = st.cursorX)
    THEN gameover(st)
    ELSE [st EXCEPT !.g = Wr(Wr(st.g, row - 1, col, EMPTY), row, col, EMPTY)]

\* the enemy-bullet loop body with the Loss test not looking at the column
EnemyCellAnyColumn(st, row, col, below) ==
    IF Rd(st.g, row - 1, col, below) = EMPTY
    THEN [st EXCEPT !.g = Wr(Wr(st.g, row - 1, col, ENEMY_BULLET), row, col, EMPTY)]
    ELSE IF row - 1 = 0 \/ row = 0
    THEN gameover(st)
    ELSE [st EXCEPT !.g = Wr(st.g, row, col, EMPTY)]

\* body of the enemy-bullet loop for a cell that holds ENEMY_BULLET; below is
\* the byte grid[-1][col]
EnemyCell(st, row, col, below) ==
    IF Rd(st.g, row - 1, col, below) = EMPTY
    THEN [st EXCEPT !.g = Wr(Wr(st.g, row - 1, col, ENEMY_BULLET), row, col, EMPTY)]
    ELSE IF (row - 1 = 0 /\ col = st.cursorX) \/ (row = 0 /\ col = st.cursorX)
    THEN gameover(st)
    ELSE [st EXCEPT !.g = Wr(st.g, row, col, EMPTY)]

\* the inner loop of the enemy pass: columns 0 to 7 of one row
RECURSIVE EnemyCols(_, _, _, _)
EnemyCols(st, row, col, below) ==
    IF col = 8 THEN st
    ELSE IF st.g[row][col] = ENEMY_BULLET
    THEN EnemyCols(EnemyCell(st, row, col, below[col]), row, col + 1, below)
    ELSE EnemyCols(st, row, col + 1, below)

\* the outer loop of the enemy pass: row 0 up to row 7
RECURSIVE EnemyRows(_, _, _)
EnemyRows(st, row, below) ==
    IF row = 8 THEN st
    ELSE EnemyRows(EnemyCols(st, row, 0, below), row + 1, below)

EnemyPass(st, below) == EnemyRows(st, 0, below)

\* the row swept of enemy bullets after the two passes
CleanupRow == 7

Cleanup(st) ==
    [st EXCEPT !.g = [r \in Rows |-> [c \in Cols |->
        IF r = CleanupRow /\ st.g[r][c] = ENEMY_BULLET THEN EMPTY ELSE st.g[r][c]]]]

\* the two passes and the cleanup of one due tick
BulletTick(st, above, below) == Cleanup(EnemyPass(PlayerPass(st, above), below))

\* the row indices used for the cell above a player bullet (grid[row + 1],
\* taken for a bullet in any row but 0) and for the cell below an enemy bullet
\* (grid[row - 1], taken for a bullet in any row)
PlayerPassRows(g) ==
    {row + 1 : row \in {r \in Rows : r > 0 /\ \E c \in Cols : g[r][c] = BULLET}}

EnemyPassRows(g) ==
    {row - 1 : row \in {r \in Rows : \E c \in Cols : g[r][c] = ENEMY_BULLET}}

Older(a, b) == IF a >= b THEN a ELSE b

\* the ages after a due tick that turns g into g2.  A player bullet found in a
\* cell after the tick is the one that stood there or the one that stood one
\* row nearer the player (line 334 is the only move); an enemy bullet is the
\* one that stood there or one row farther (line 387).  Where both stood, the
\* older one counts.
AgeAfterTick(g, g2, a) ==
    [r \in Rows |-> [c \in Cols |->
        IF g2[r][c] = BULLET
        THEN 1 + Older(IF g[r][c] = BULLET THEN a[r][c] ELSE -1,
                       IF r >= 1 /\ g[r - 1][c] = BULLET THEN a[r - 1][c] ELSE -1)
        ELSE IF g2[r][c] = ENEMY_BULLET
        THEN 1 + Older(IF g[r][c] = ENEMY_BULLET THEN a[r][c] ELSE -1,
                       IF r <= 6 /\ g[r + 1][c] = ENEMY_BULLET THEN a[r + 1][c] ELSE -1)
        ELSE 0]]

\* the ages after a step that moves no bullet: a bullet that stays keeps its
\* age, a bullet just created (lines 426, 490) starts at 0
AgeKept(g, g2, a) ==
    [r \in Rows |-> [c \in Cols |->
        IF g2[r][c] \in {BULLET, ENEMY_BULLET} /\ g[r][c] = g2[r][c]
        THEN a[r][c] ELSE 0]]

\* the bytes read outside the grid: one per column that holds a bullet in the
\* row the pass starts from (other columns never read theirs)
OobReads(g, row, v, bytes) ==
    LET S == {c \in Cols : g[row][c] = v}
    IN {[c \in Cols |-> IF c \in S THEN f[c] ELSE 0] : f \in [S -> bytes]}

BulletDue == currentTime - lastShootMoveTime >= BULLET_INTERVAL

Commit(st) ==
    /\ grid' = st.g
    /\ score' = st.score
    /\ enemies' = st.enemies
    /\ kills' = st.kills
    /\ wave' = st.wave
    /\ cursorX' = st.cursorX
    /\ now' = st.now
    /\ gameovers' = st.gameovers
    /\ renders' = st.renders
    /\ sessions' = st.sessions

\* lines 318-405, with the byte beyond the far row drawn from bytes
advanceBulletReading(bytes) ==
    /\ pc = "advanceBullet"
    /\ pc' = "updateLeds"
    /\ IF BulletDue
       THEN /\ lastShootMoveTime' = currentTime
            /\ \E above \in OobReads(grid, 7, BULLET, bytes) :
               \E below \in OobReads(grid, 0, ENEMY_BULLET, {EMPTY, CURSOR}) :
                 Commit(BulletTick(Machine, above, below))
       ELSE /\ lastShootMoveTime' = lastShootMoveTime
            /\ Commit(Machine)
    /\ age' = IF BulletDue THEN AgeAfterTick(grid, grid', age) ELSE age
    /\ UNCHANGED <<baseEnemyShootDelay, enemyShootDelay, currentTime,
                   lastMoveTime, lastShotTime, lastEnemyShotTime, decrements,
                   shotDraws>>

advanceBullet == advanceBulletReading(OobBytes)

\* --------------------------------------------------------------- updateLeds
\* reads grid and cursorX and writes only the LED strip
updateLeds ==
    /\ pc = "updateLeds"
    /\ pc' = "enemyShoot"
    /\ gameovers' = 0
    /\ renders' = 0
    /\ UNCHANGED <<grid, cursorX, score, enemies, kills, wave,
                   baseEnemyShootDelay, enemyShootDelay, currentTime, lastMoveTime,
                   lastShootMoveTime, lastShotTime, lastEnemyShotTime, now, sessions,
                   decrements, shotDraws, age>>

\* --------------------------------------------------------------- enemyShoot
RECURSIVE hasEnemyBelowFrom(_, _, _)
hasEnemyBelowFrom(g, row, c) ==
    IF row < 3 THEN FALSE
    ELSE IF g[row][c] # EMPTY THEN TRUE
    ELSE hasEnemyBelowFrom(g, row - 1, c)

\* no suppression: the lane below is never looked at
hasEnemyBelowNever(g, r, c) == FALSE

hasEnemyBelow(g, r, c) == hasEnemyBelowFrom(g, r - 1, c)

\* the tests of the enemyShoot loop body; fireChance is the draw random(100)
Fires(g, row, col, fireChance) ==
    LET slot == g[row][col]
    IN /\ fireChance >= FIRE_THRESHOLD
       /\ slot \in Shooters
       /\ ~hasEnemyBelow(g, row, col)
       /\ row > 0
       /\ g[row - 1][col] = EMPTY

\* the loop body firing into the two cells below the enemy
ShootCellTwo(g, row, col, fireChance) ==
    IF Fires(g, row, col, fireChance)
    THEN Wr(Wr(g, row - 1, col, ENEMY_BULLET), row - 2, col, ENEMY_BULLET)
    ELSE g

\* body of the enemyShoot loop for one cell
ShootCell(g, row, col, fireChance) ==
    IF Fires(g, row, col, fireChance) THEN Wr(g, row - 1, col, ENEMY_BULLET) ELSE g

\* the cells whose draw can matter: a cell that passes the tests of ShootCell
\* during the scan also passes them on the grid the scan starts from, since
\* the scan only turns Empty cells into enemy bullets
Eligible(g) ==
    {k \in 0..63 : Fires(g, k \div 8, k % 8, FIRE_THRESHOLD)}

\* one draw below and one at the threshold stand for random(100) < 50 and >= 50
Draw(high, k) == IF k \in high THEN FIRE_THRESHOLD ELSE FIRE_THRESHOLD - 1

\* the inner loop of enemyShoot; high is the set of cells that drew >= 50
RECURSIVE ShootCols(_, _, _, _)
ShootCols(g, row, col, high) ==
    IF col = 8 THEN g
    ELSE IF Fires(g, row, col, Draw(high, row * 8 + col))
    THEN ShootCols(ShootCell(g, row, col, Draw(high, row * 8 + col)), row, col + 1, high)
    ELSE ShootCols(g, row, col + 1, high)

\* the outer loop of enemyShoot: rows 0 to 7
RECURSIVE ShootRows(_, _, _)
ShootRows(g, row, high) ==
    IF row = 8 THEN g
    ELSE ShootRows(ShootCols(g, row, 0, high), row + 1, high)

ShootScan(g, high) == ShootRows(g, 0, high)

\* the int enemyShootDelay is converted to unsigned long for the comparison:
\* a negative delay becomes a value above 2^32 - 32769, which no elapsed time reaches
\* one call of random(100) for every cell the two loops visit
ScanDraws == Cardinality(Rows) * Cardinality(Cols)

EnemyShotDue == /\ enemyShootDelay >= 0
                /\ currentTime - lastEnemyShotTime >= enemyShootDelay

\* enemyShoot with the stamp advanced by the interval instead of set to the
\* current time
enemyShootCatchUp ==
    /\ pc = "enemyShoot"
    /\ pc' = "progress"
    /\ gameovers' = 0
    /\ renders' = 0
    /\ IF EnemyShotDue
       THEN /\ \E high \in SUBSET Eligible(grid) : grid' = ShootScan(grid, high)
            /\ lastEnemyShotTime' = lastEnemyShotTime + enemyShootDelay
            /\ shotDraws' = shotDraws + ScanDraws
       ELSE UNCHANGED <<grid, lastEnemyShotTime, shotDraws>>
    /\ age' = AgeKept(grid, grid', age)
    /\ UNCHANGED <<cursorX, score, enemies, kills, wave,
                   baseEnemyShootDelay, enemyShootDelay, currentTime, lastMoveTime,
                   lastShootMoveTime, lastShotTime, now, sessions, decrements>>

\* lines 416-434, with the cells whose random(100) is 50 or more drawn from
\* draws
enemyShootDrawing(draws) ==
    /\ pc = "enemyShoot"
    /\ pc' = "progress"
    /\ gameovers' = 0
    /\ renders' = 0
    /\ IF EnemyShotDue
       THEN /\ \E high \in draws : grid' = ShootScan(grid, high)
            /\ lastEnemyShotTime' = currentTime
            /\ shotDraws' = shotDraws + ScanDraws
       ELSE UNCHANGED <<grid, lastEnemyShotTime, shotDraws>>
    /\ age' = AgeKept(grid, grid', age)
    /\ UNCHANGED <<cursorX, score, enemies, kills, wave,
                   baseEnemyShootDelay, enemyShootDelay, currentTime, lastMoveTime,
                   lastShootMoveTime, lastShotTime, now, sessions, decrements>>

AnyDraws == SUBSET Eligible(grid)

enemyShoot == enemyShootDrawing(AnyDraws)

\* ------------------------------------------------------------- setupTargets
\* only the multi-hit tiers counted
WeightOnlyTiered(v) == IF v = ENEMY_C THEN 2
                       ELSE IF v = ENEMY_D THEN 3
                       ELSE 0

Weight(v) == IF v = EMPTY THEN 0
             ELSE IF v = ENEMY_C THEN 2
             ELSE IF v = ENEMY_D THEN 3
             ELSE 1

RECURSIVE SumRow(_, _)
SumRow(line, col) ==
    IF col = 8 THEN 0 ELSE Weight(line[col + 1]) + SumRow(line, col + 1)

\* what the two loops of setupTargets add to enemies for template t
SumWeights(t) == SumRow(t[1], 0) + SumRow(t[2], 0) + SumRow(t[3], 0)

\* the template written one row lower: grid[6 - row][col] = wave[row][col]
StampLow(g, t) ==
    [r \in Rows |-> [c \in Cols |->
        IF r >= 4 /\ r <= 6 THEN t[(6 - r) + 1][c + 1] ELSE g[r][c]]]

\* grid[7 - row][col] = wave[row][col] for the three template rows
Stamp(g, t) ==
    [r \in Rows |-> [c \in Cols |->
        IF r >= 5 THEN t[(7 - r) + 1][c + 1] ELSE g[r][c]]]

\* setupTargets also resetting the kill counter for the new wave
setupTargetsResetsKills(st, waveIndex) ==
    LET t == WAVES[waveIndex + 1]
    IN [st EXCEPT !.enemies = Int16(st.enemies + SumWeights(t)),
                  !.kills = 0,
                  !.g = Stamp(st.g, t)]

setupTargets(st, waveIndex) ==
    LET t == WAVES[waveIndex + 1]
    IN [st EXCEPT !.enemies = Int16(st.enemies + SumWeights(t)),
                  !.g = Stamp(st.g, t)]

\* ------------------------------------------- loop: the progression check
\* enemyShootDelay = baseEnemyShootDelay -= (50*wave), in 16-bit int
NextBase(base, w) == Int16(base - Int16(DELAY_STEP * w))

\* the progression check without its clamp
ClampNone(d) == d

Clamp(d) == IF d < DELAY_FLOOR THEN DELAY_FLOOR ELSE d

\* the cap tested one wave late
OverCapLate(w) == w > WAVE_CAP + 1

\* if (wave > 99)
OverCap(w) == w > WAVE_CAP

\* the wave-clear test with > for >=
WaveClearedStrict(k, e) == k > e

\* if (kills >= enemies)
WaveCleared(k, e) == k >= e

progressOver(choices) ==
    /\ pc = "progress"
    /\ pc' = "moveAndFire"
    /\ IF WaveCleared(kills, enemies)
       THEN \E waveIndex \in choices :
              LET s1 == setupTargets(Machine, waveIndex)
                  s2 == [s1 EXCEPT !.wave = Int16(s1.wave + 1)]
                  s3 == IF OverCap(s2.wave) THEN gameover(s2) ELSE s2
              IN /\ Commit(s3)
                 /\ baseEnemyShootDelay' = NextBase(baseEnemyShootDelay, s3.wave)
                 /\ enemyShootDelay' = Clamp(NextBase(baseEnemyShootDelay, s3.wave))
       ELSE /\ Commit(Machine)
            /\ UNCHANGED <<baseEnemyShootDelay, enemyShootDelay>>
    /\ age' = AgeKept(grid, grid', age)
    /\ UNCHANGED <<currentTime, lastMoveTime, lastShootMoveTime, lastShotTime,
                   lastEnemyShotTime, decrements, shotDraws>>

progress == progressOver(WaveChoices)

\* --------------------------------------- loop: cursor movement and shooting
MoveDue(t) == t - lastMoveTime >= MOVE_INTERVAL

\* the cursor step without the tests cursorX < 7 and cursorX > 0 (uint8_t)
MoveCursorUnclamped(x, joy) ==
    IF joy < 512 - DEADZONE THEN (x + 1) % 256
    ELSE IF joy > 512 + DEADZONE THEN (x - 1) % 256
    ELSE x

MoveCursor(x, joy) ==
    IF joy < 512 - DEADZONE /\ x < 7 THEN x + 1
    ELSE IF joy > 512 + DEADZONE /\ x > 0 THEN x - 1
    ELSE x

ReloadDue(t) == t - lastShotTime >= RELOAD_TIME

\* the readings followed: one above the dead zone only while fewer than
\* MaxDecrements of them have moved the cursor
Readings == {j \in JoyValues : j <= 512 + DEADZONE \/ decrements < MaxDecrements}

\* millis(): the clock has advanced by 0 or TickMs since the last read; it is
\* followed up to MaxTime and past the pauses of gameover, then held still
Elapsed == {d \in {0, TickMs} : d = 0 \/ now + d <= MaxTime}

\* lines 477-493, with the clock read after one of the delays in ds and the
\* joystick reading one of rs
moveAndFireReading(ds, rs) ==
    /\ pc = "moveAndFire"
    /\ pc' = "advanceBullet"
    /\ gameovers' = 0
    /\ renders' = 0
    /\ \E d \in ds, xValue \in rs :
        LET t == now + d
            x == IF MoveDue(t) THEN MoveCursor(cursorX, xValue) ELSE cursorX
        IN /\ now' = t
           /\ decrements' = IF x < cursorX THEN decrements + 1 ELSE decrements
           /\ currentTime' = t
           /\ lastMoveTime' = IF MoveDue(t) THEN t ELSE lastMoveTime
           /\ cursorX' = x
           /\ IF ReloadDue(t) /\ grid[1][x] = EMPTY
              THEN /\ lastShotTime' = t
                   /\ grid' = Wr(grid, 1, x, BULLET)
              ELSE UNCHANGED <<lastShotTime, grid>>
    /\ age' = AgeKept(grid, grid', age)
    /\ UNCHANGED <<score, enemies, kills, wave, baseEnemyShootDelay,
                   enemyShootDelay, lastShootMoveTime, lastEnemyShotTime, sessions,
                   shotDraws>>

moveAndFireAfter(ds) == moveAndFireReading(ds, Readings)

moveAndFire == moveAndFireAfter(Elapsed)

\* ------------------------------------------------------------ specification
\* the globals as initialised, after setup() has called initGame
Init ==
    /\ grid = EmptyGrid
    /\ cursorX = CURSOR_START
    /\ score = 0
    /\ enemies = 0
    /\ kills = 0
    /\ wave = 0
    /\ baseEnemyShootDelay = BASE_DELAY
    /\ enemyShootDelay = BASE_DELAY
    /\ currentTime = 0
    /\ lastMoveTime = 0
    /\ lastShootMoveTime = 0
    /\ lastShotTime = 0
    /\ lastEnemyShotTime = 0
    /\ now = 0
    /\ pc = "advanceBullet"
    /\ gameovers = 0
    /\ renders = 0
    /\ sessions = 0
    /\ decrements = 0
    /\ shotDraws = 0
    /\ age = [r \in Rows |-> [c \in Cols |-> 0]]

Next ==
    \/ advanceBullet
    \/ updateLeds
    \/ enemyShoot
    \/ progress
    \/ moveAndFire

Spec == Init /\ [][Next]_vars

\* ------------------------------------------- the specification of the waves
\* Ninety-nine waves are far beyond MaxTime, so the wave arithmetic is followed
\* under a second specification: the clock stands still between two reads of
\* millis() (only the pauses of gameover move it), and the hits that clear a
\* wave are taken in one step.

\* the score of the hits that remove an enemy of tier v: one hit per tier on
\* the way down
RECURSIVE ChainScore(_)
ChainScore(v) == IF v \notin Enemies THEN 0 ELSE HitScore(v) + ChainScore(Downgrade(v))

RECURSIVE ChainHits(_)
ChainHits(v) == IF v \notin Enemies THEN 0 ELSE 1 + ChainHits(Downgrade(v))

\* the hits still needed to clear g, and the tier values they score
RECURSIVE RemainingHits(_, _)
RemainingHits(g, k) ==
    IF k = 64 THEN 0 ELSE ChainHits(g[k \div 8][k % 8]) + RemainingHits(g, k + 1)

RECURSIVE RemainingScore(_, _)
RemainingScore(g, k) ==
    IF k = 64 THEN 0 ELSE ChainScore(g[k \div 8][k % 8]) + RemainingScore(g, k + 1)

\* every enemy on the grid is shot down through its tiers by player bullets
clearWave ==
    /\ pc = "advanceBullet"
    /\ sessions < MaxSessions
    /\ RemainingHits(grid, 0) > 0
    /\ grid' = [r \in Rows |-> [c \in Cols |->
                    IF grid[r][c] \in Enemies THEN EMPTY ELSE grid[r][c]]]
    /\ kills' = Int16(kills + RemainingHits(grid, 0))
    /\ score' = score + RemainingScore(grid, 0) * wave
    /\ gameovers' = 0
    /\ renders' = 0
    /\ UNCHANGED <<cursorX, enemies, wave, baseEnemyShootDelay, enemyShootDelay,
                   currentTime, lastMoveTime, lastShootMoveTime, lastShotTime,
                   lastEnemyShotTime, now, pc, sessions, decrements, shotDraws, age>>

moveAndFireStill == moveAndFireAfter({0})

NextWave ==
    \/ advanceBullet
    \/ updateLeds
    \/ enemyShoot
    \/ progress
    \/ moveAndFireStill
    \/ clearWave

SpecWave == Init /\ [][NextWave]_vars

\* ------------------------------------------------------------------------
\* The first waves with setupTargets drawing any template of the catalog;
\* the clock is held still and waves are cleared by clearWave.
progressAny == progressOver(AllWaves)

clearWaveEarly == wave <= MaxCatalogWaves /\ clearWave

NextCatalog ==
    \/ advanceBullet
    \/ updateLeds
    \/ enemyShoot
    \/ progressAny
    \/ moveAndFireStill
    \/ clearWaveEarly

SpecCatalog == Init /\ [][NextCatalog]_vars

\* ------------------------------------------------------------------------
\* Play up to the first enemy-fire tick with WAVE_1, whose columns 1, 2, 5, 6
\* have an Empty cell between the enemy of row 7 and the enemy of row 5.
GapChoices == {0}

progressGap == progressOver(GapChoices)

moveAndFireGap ==
    moveAndFireAfter({d \in {0, TickMs} : d = 0 \/ now + d <= MaxGapTime})

NextGap ==
    \/ advanceBullet
    \/ updateLeds
    \/ enemyShoot
    \/ progressGap
    \/ moveAndFireGap

SpecGap == Init /\ [][NextGap]_vars

\* ------------------------------------------------------------------------
\* Play with WAVE_8 (index 7), whose columns 3 and 4 are empty, so that the
\* bullets fired from the starting column fly to row 7 and read the byte
\* beyond it.  The joystick rests at the centre, or reads below the dead zone
\* (cursorX++) while the cursor is in its starting column; the byte beyond the
\* far row is Empty or a TierA value; in a call of enemyShoot the draws of
\* random(100) come out all below 50 or all 50 or more.
LaneChoices == {7}

LaneBytes == {EMPTY, ENEMY_A}

LaneReadings == {j \in JoyValues : j = 512 \/ (j < 512 /\ cursorX = CURSOR_START)}

LaneDraws == {{}, Eligible(grid)}

progressLane == progressOver(LaneChoices)

advanceBulletLane == advanceBulletReading(LaneBytes)

enemyShootLane == enemyShootDrawing(LaneDraws)

moveAndFireLane ==
    moveAndFireReading({d \in {0, TickMs} : d = 0 \/ now + d <= MaxLaneTime},
                       LaneReadings)

NextLane ==
    \/ advanceBulletLane
    \/ updateLeds
    \/ enemyShootLane
    \/ progressLane
    \/ moveAndFireLane

SpecLane == Init /\ [][NextLane]_vars

\* ------------------------------------------------------------------------
\* The first moves of the cursor with every joystick reading at every pass:
\* long enough for the cursor to reach either edge of the grid and be pushed
\* against it.
moveAndFireCursor ==
    moveAndFireReading({d \in {0, TickMs} : d = 0 \/ now + d <= MaxCursorTime},
                       JoyValues)

NextCursor ==
    \/ advanceBullet
    \/ updateLeds
    \/ enemyShoot
    \/ progress
    \/ moveAndFireCursor

SpecCursor == Init /\ [][NextCursor]_vars

\* ==================================================================== claims
\* a due call of advanceBullet, and a due call of enemyShoot
BulletTickStep == pc = "advanceBullet" /\ pc' = "updateLeds" /\ BulletDue
EnemyFireStep == pc = "enemyShoot" /\ pc' = "progress" /\ EnemyShotDue

CountCol(g, c, v) == Cardinality({r \in Rows : g[r][c] = v})
CountAll(g, v) == Cardinality({k \in 0..63 : g[k \div 8][k % 8] = v})

\* C1: in a due bullet-advance tick no bullet is displaced by more than one
\* row.  Every player bullet on the grid after the tick stands one row above a
\* cell that held a player bullet before it, every enemy bullet one row below
\* a cell that held an enemy bullet; and a bullet whose next cell is free (and
\* not entered by a player bullet in the same tick) stands in that next cell
\* after the tick, unless the tick ended the game.
C1_OneRowPerTick ==
    [][BulletTickStep =>
        /\ \A r \in Rows, c \in Cols :
              grid'[r][c] = BULLET => (r >= 1 /\ grid[r - 1][c] = BULLET)
        /\ \A r \in Rows, c \in Cols :
              grid'[r][c] = ENEMY_BULLET => (r <= 6 /\ grid[r + 1][c] = ENEMY_BULLET)
        /\ gameovers' = 0 =>
              \A r \in 1..6, c \in Cols :
                 (grid[r][c] = BULLET /\ grid[r + 1][c] = EMPTY)
                    => grid'[r + 1][c] = BULLET
        /\ gameovers' = 0 =>
              \A r \in 1..7, c \in Cols :
                 (/\ grid[r][c] = ENEMY_BULLET
                  /\ grid[r - 1][c] = EMPTY
                  /\ (r >= 2 => grid[r - 2][c] # BULLET))
                    => grid'[r - 1][c] = ENEMY_BULLET
    ]_vars

\* a tick has just moved a player bullet into row 2 and an enemy bullet into row 3
C1_Witness ==
    /\ pc = "updateLeds"
    /\ lastShootMoveTime = currentTime
    /\ \E c \in Cols : grid[2][c] = BULLET
    /\ \E c \in Cols : grid[3][c] = ENEMY_BULLET

\* C2 (as claimed): an enemy bullet one row above the cursor, with the cursor's
\* cell Empty, has the cursor's cell as its destination, so the due tick that
\* moves it is the tick on which the Loss transition fires
C2_LossWhenBulletArrives ==
    [][(BulletTickStep /\ grid[1][cursorX] = ENEMY_BULLET /\ grid[0][cursorX] = EMPTY)
          => gameovers' = 1]_vars

\* C3 (as claimed): a player bullet and an enemy bullet one Empty cell apart
\* are both gone after the tick, and the intercept bonus 1 x wave is in the score
C3_GapPairAnnihilates ==
    [][BulletTickStep =>
        \A r \in 1..5, c \in Cols :
           (grid[r][c] = BULLET /\ grid[r + 1][c] = EMPTY /\ grid[r + 2][c] = ENEMY_BULLET)
              => /\ grid'[r][c] = EMPTY
                 /\ grid'[r + 1][c] = EMPTY
                 /\ grid'[r + 2][c] = EMPTY
                 /\ (gameovers' = 0 => score' >= score + wave)
    ]_vars

\* the tier an enemy has after one hit, as the claim lists it
C4_After(v) == IF v = ENEMY_D THEN ENEMY_C
               ELSE IF v = ENEMY_C THEN ENEMY_B
               ELSE EMPTY

\* the player bullets whose one-cell-forward destination holds an enemy
C4_Hits(g) == {k \in 8..55 : g[k \div 8][k % 8] = BULLET /\ g[(k \div 8) + 1][k % 8] \in Enemies}

\* C4: in a due tick that does not end the game, every player bullet whose
\* next cell holds an enemy takes that enemy one tier down (D to C, C to B,
\* B and A to Empty) and leaves its own cell Empty, and kills grows by one for
\* each such bullet (a bullet in row 7, whose next cell is no grid cell, may
\* add one more)
C4_HitDowngradesAndCounts ==
    [][(BulletTickStep /\ gameovers' = 0) =>
        /\ \A k \in C4_Hits(grid) :
              /\ grid'[(k \div 8) + 1][k % 8] = C4_After(grid[(k \div 8) + 1][k % 8])
              /\ grid'[k \div 8][k % 8] = EMPTY
        /\ kills' - kills >= Cardinality(C4_Hits(grid))
        /\ kills' - kills <= Cardinality(C4_Hits(grid))
                               + Cardinality({c \in Cols : grid[7][c] = BULLET})
    ]_vars

\* a TierD enemy of the stamped wave has been hit once: WAVE_4 holds no TierC
\* in grid row 6, so a TierC there is a TierD one hit later
C4_Witness ==
    /\ pc = "updateLeds"
    /\ lastShootMoveTime = currentTime
    /\ gameovers = 0
    /\ kills >= 2
    /\ \E c \in Cols : grid[6][c] = ENEMY_C /\ WAVES[4][2][c + 1] = ENEMY_D

C6_DelayNeverIncreases ==
    [][wave' = wave + 1 => enemyShootDelay' <= enemyShootDelay]_vars

\* C7: whenever enemyShoot is about to compare against it, the enemy-fire
\* interval is at least the floor
C7_DelayAtLeastFloor == pc = "enemyShoot" => enemyShootDelay >= 200

\* in a later session, past the wave where the base delay has gone negative
C7_Witness ==
    /\ pc = "enemyShoot"
    /\ sessions >= 1
    /\ wave >= 6
    /\ baseEnemyShootDelay < 0
    /\ enemyShootDelay = 200

C8_Max(a, b) == IF a >= b THEN a ELSE b

\* C8 (as claimed): in wave n the interval is max(200, 1000 - 50 n)
C8_DelayFormula ==
    (wave >= 1 /\ wave <= 99) => enemyShootDelay = C8_Max(200, 1000 - 50 * wave)

\* C9: within a session (a step in which gameover is not called) neither
\* kills nor wave decreases
C9_KillsAndWaveNeverDecrease ==
    [][gameovers' = 0 => (kills' >= kills /\ wave' >= wave)]_vars

\* hits have been counted in wave 1
C9_Witness == wave = 1 /\ kills >= 3 /\ gameovers = 0 /\ pc = "updateLeds"

\* C10: when gameover has returned the grid is Empty throughout, the four
\* counters are 0 and the cursor is at its start column
C10_ResetAfterGameover ==
    gameovers >= 1 =>
        /\ \A r \in Rows, c \in Cols : grid[r][c] = EMPTY
        /\ score = 0
        /\ kills = 0
        /\ enemies = 0
        /\ wave = 0
        /\ cursorX = 4

\* the enemy-bullet pass has called gameover after hits had been scored
C10_Witness == gameovers = 1 /\ pc = "updateLeds" /\ now > MaxTime


\* C11: once a Loss or Win transition has completed, the four last-fire stamps
\* and the enemy-fire interval with its base are back at the values of Init
C11_TimersResetAfterGameover ==
    gameovers >= 1 =>
        /\ lastShootMoveTime = 0
        /\ lastEnemyShotTime = 0
        /\ lastMoveTime = 0
        /\ lastShotTime = 0
        /\ baseEnemyShootDelay = BASE_DELAY
        /\ enemyShootDelay = BASE_DELAY

\* C12: at the end of every due bullet-advance tick no cell of row 0, the
\* player's home row, holds an enemy bullet
C12_HomeRowSweptEachTick ==
    [][BulletTickStep => \A c \in Cols : grid'[0][c] # ENEMY_BULLET]_vars

\* C13: every row index advanceBullet uses on the grid lies within 0..7
C13_IndicesInsideGrid ==
    [][BulletTickStep =>
        /\ PlayerPassRows(grid) \subseteq Rows
        /\ \A above \in OobReads(grid, 7, BULLET, OobBytes) :
             EnemyPassRows(PlayerPass(Machine, above).g) \subseteq Rows]_vars

\* C14: the grid is 8 by 8 and every cell holds one of the values 0..6; the
\* cursor marker 7 is never stored in it
C14_CellsInVocabulary ==
    /\ DOMAIN grid = Rows
    /\ \A r \in Rows :
         /\ DOMAIN grid[r] = Cols
         /\ \A c \in Cols : grid[r][c] \in EMPTY..ENEMY_D /\ grid[r][c] # CURSOR

\* both kinds of bullet and all four tiers are in the grid after a hit
C14_Witness ==
    /\ kills > 0
    /\ \A v \in {BULLET, ENEMY_BULLET} \cup Enemies :
         \E r \in Rows, c \in Cols : grid[r][c] = v

\* C15: enemy cells occur only in rows 5, 6 and 7
C15_EnemiesInTopRows ==
    \A r \in Rows, c \in Cols : grid[r][c] \in Enemies => r >= 5

\* a hit has downgraded a TierD of row 6 in place, bullets are in flight below
C15_Witness ==
    /\ kills > 0
    /\ \E c \in Cols : grid[6][c] = ENEMY_C /\ WAVE_4[2][c + 1] = ENEMY_D
    /\ \E r \in 0..4, c \in Cols : grid[r][c] = ENEMY_BULLET

\* C16: whichever template of the catalog setupTargets stamps, it adds at
\* least 1 to enemies, and the wave just stamped is not already cleared
C16_StampAddsEnemies ==
    [][(pc = "progress" /\ kills >= enemies /\ gameovers' = 0) =>
        (enemies' >= enemies + 1 /\ kills' < enemies')]_vars

\* one of the lightest templates (WAVE_8) stamped for the second wave
C16_Witness ==
    /\ pc = "moveAndFire"
    /\ wave = 2
    /\ kills < enemies
    /\ grid = Stamp(EmptyGrid, WAVE_8)

\* C18: the template of the k-th wave depends on the seed alone: the index
\* setupTargets draws is the k-th value of the random stream, no draw of
\* enemyShoot (whose number depends on inputs and timing) comes before it
C18_TemplatesFromSeedAlone ==
    [][(pc = "progress" /\ kills >= enemies) => shotDraws = 0]_vars

\* C19: the wave transition that takes the wave number past the cap calls
\* gameover, which leaves a re-initialised game and no stamped wave; the wave
\* number is at most 99 in every state between two steps of the loop
C19_CapEndsGame ==
    [][/\ wave' <= WAVE_CAP
       /\ (pc = "progress" /\ kills >= enemies /\ wave = WAVE_CAP) =>
            /\ gameovers' = 1
            /\ grid' = EmptyGrid
            /\ enemies' = 0 /\ score' = 0 /\ kills' = 0 /\ wave' = 0
            /\ cursorX' = CURSOR_START]_vars

\* wave 99 has been cleared and the progression check has called gameover
C19_Witness ==
    /\ pc = "moveAndFire"
    /\ gameovers = 1
    /\ sessions = 1
    /\ wave = 0
    /\ now = BlinkMs + 2 * LCD_PAUSE

\* C20: each of the four timers acts only when it fires; a firing sets the
\* timer's stamp to the current time, and the stamp it replaces lies at least
\* the timer's interval back, so one firing answers any backlog
C20_TimersFireOncePerInterval ==
    [][/\ (lastShootMoveTime' # lastShootMoveTime
             \/ (pc = "advanceBullet" /\ (grid' # grid \/ gameovers' > 0))) =>
            /\ lastShootMoveTime' = currentTime'
            /\ lastShootMoveTime' - lastShootMoveTime >= BULLET_INTERVAL
       /\ (lastEnemyShotTime' # lastEnemyShotTime
             \/ (pc = "enemyShoot" /\ grid' # grid)) =>
            /\ lastEnemyShotTime' = currentTime'
            /\ lastEnemyShotTime' - lastEnemyShotTime >= enemyShootDelay
       /\ (lastMoveTime' # lastMoveTime
             \/ (pc = "moveAndFire" /\ cursorX' # cursorX)) =>
            /\ lastMoveTime' = currentTime'
            /\ lastMoveTime' - lastMoveTime >= MOVE_INTERVAL
       /\ (lastShotTime' # lastShotTime
             \/ (pc = "moveAndFire" /\ grid' # grid)) =>
            /\ lastShotTime' = currentTime'
            /\ lastShotTime' - lastShotTime >= RELOAD_TIME]_vars

\* the first pass of the loop after the pauses of gameover: each of the four
\* timers, thousands of milliseconds overdue, has fired once at the new reading
C20_Witness ==
    /\ pc = "progress"
    /\ sessions = 1
    /\ gameovers = 0
    /\ currentTime > MaxTime + BlinkMs
    /\ lastShootMoveTime = currentTime
    /\ lastEnemyShotTime = currentTime
    /\ lastMoveTime = currentTime
    /\ lastShotTime = currentTime
    /\ \E c \in Cols : grid[2][c] = BULLET
    /\ \E c \in Cols : grid[4][c] = ENEMY_BULLET

\* C21: an enemy-fire tick writes an enemy bullet only into the cell below a
\* shooting enemy, and only if no cell of that column nearer the player holds
\* an enemy
C21_NoFireOverEnemy ==
    [][EnemyFireStep =>
        \A r \in 0..6, c \in Cols :
           (grid'[r][c] = ENEMY_BULLET /\ grid[r][c] # ENEMY_BULLET) =>
              /\ grid[r + 1][c] \in Shooters
              /\ \A below \in 0..r : grid[below][c] \notin Enemies]_vars

\* the enemy of row 7 has fired in a column whose row-5 enemy was shot down,
\* and has not fired in a column where row 6 is Empty and row 5 holds an enemy
C21_Witness ==
    /\ pc = "progress"
    /\ lastEnemyShotTime = currentTime
    /\ \E c \in Cols : /\ grid[6][c] = ENEMY_BULLET
                       /\ grid[7][c] \in Shooters
                       /\ WAVE_1[3][c + 1] \in Enemies
    /\ \E c \in Cols : /\ grid[7][c] \in Shooters
                       /\ grid[6][c] = EMPTY
                       /\ grid[5][c] \in Enemies

\* a progression check that finds the wave cleared and calls setupTargets
StampStep == pc = "progress" /\ pc' = "moveAndFire" /\ kills >= enemies

\* C23: right after a wave is stamped every cell of rows 0..4 is Empty
C23_LowerRowsClearedAtStamp ==
    [][StampStep => \A r \in 0..4, c \in Cols : grid'[r][c] = EMPTY]_vars

\* C24: right after a wave transition the kill counter is 0
C24_KillsResetAtTransition ==
    [][StampStep => kills' = 0]_vars

\* C25: right after template t is stamped, for any wave of a session, the
\* count the wave-clear test compares kills against is the weighted sum of t
C25_CountIsTemplateSum ==
    [][(StampStep /\ gameovers' = 0) =>
        \E waveIndex \in AllWaves :
           /\ \A r \in 5..7, c \in Cols : grid'[r][c] = WAVES[waveIndex + 1][(7 - r) + 1][c + 1]
           /\ enemies' = SumWeights(WAVES[waveIndex + 1])]_vars

\* the rows of g that setupTargets writes hold template t
C26_Holds(g, t) == \A r \in 5..7, c \in Cols : g[r][c] = t[(7 - r) + 1][c + 1]

\* C26 (as claimed): the progression check stamps a template and adds exactly
\* 1 to the wave number if and only if kills >= enemies; otherwise it leaves
\* the enemy rows, the wave number and the enemy-fire interval as they were
C26_TransitionIffCleared ==
    [][(pc = "progress" /\ pc' = "moveAndFire") =>
        IF kills >= enemies
        THEN /\ wave' = wave + 1
             /\ \E waveIndex \in AllWaves : C26_Holds(grid', WAVES[waveIndex + 1])
        ELSE /\ \A r \in 5..7 : grid'[r] = grid[r]
             /\ wave' = wave
             /\ enemyShootDelay' = enemyShootDelay]_vars

\* C26 (amended): as claimed, except that the check which finds wave 99
\* cleared ends the session: the wave number is then 0 and the grid is empty
C26_TransitionIffClearedBelowCap ==
    [][(pc = "progress" /\ pc' = "moveAndFire") =>
        IF kills >= enemies /\ wave < WAVE_CAP
        THEN /\ wave' = wave + 1
             /\ \E waveIndex \in AllWaves : C26_Holds(grid', WAVES[waveIndex + 1])
        ELSE IF kills >= enemies
        THEN wave' = 0 /\ grid' = EmptyGrid
        ELSE /\ \A r \in 5..7 : grid'[r] = grid[r]
             /\ wave' = wave
             /\ enemyShootDelay' = enemyShootDelay
             /\ baseEnemyShootDelay' = baseEnemyShootDelay]_vars

\* the second wave of the session that follows a cleared wave 99 is stamped
C26_Witness ==
    /\ pc = "moveAndFire"
    /\ sessions = 1
    /\ wave = 2
    /\ kills < enemies
    /\ C26_Holds(grid, WAVE_4)

\* the player bullets whose one-cell-forward destination holds an enemy bullet
C27_Intercepts(g) ==
    {k \in 8..55 : g[k \div 8][k % 8] = BULLET /\ g[(k \div 8) + 1][k % 8] = ENEMY_BULLET}

\* the score units (to be multiplied by wave) that the player bullets of rows
\* 1..6 earn in one tick: the tier score for a hit, 1 for an intercept
RECURSIVE C27_Units(_, _)
C27_Units(g, k) ==
    IF k = 56 THEN 0
    ELSE (IF g[k \div 8][k % 8] # BULLET THEN 0
          ELSE IF g[(k \div 8) + 1][k % 8] \in Enemies
          THEN HitScore(g[(k \div 8) + 1][k % 8])
          ELSE IF g[(k \div 8) + 1][k % 8] = ENEMY_BULLET THEN 1
          ELSE 0) + C27_Units(g, k + 1)

\* C27: in a due tick that does not end the game, every player bullet whose
\* next cell holds an enemy bullet leaves both cells Empty; it adds 1 x wave to
\* the score once and nothing to kills (with no bullet in row 7, score and
\* kills change by the hits and intercepts of the tick and by nothing else)
C27_InterceptClearsAndScoresOnce ==
    [][(BulletTickStep /\ gameovers' = 0) =>
        /\ \A k \in C27_Intercepts(grid) :
              /\ grid'[k \div 8][k % 8] = EMPTY
              /\ grid'[(k \div 8) + 1][k % 8] = EMPTY
        /\ (\A c \in Cols : grid[7][c] # BULLET) =>
              /\ score' = score + wave * C27_Units(grid, 8)
              /\ kills' = kills + Cardinality(C4_Hits(grid))
    ]_vars

\* a due tick is about to run with a player bullet right below an enemy
\* bullet and no bullet in row 7
C27_Witness ==
    /\ pc = "advanceBullet"
    /\ BulletDue
    /\ C27_Intercepts(grid) # {}
    /\ \A c \in Cols : grid[7][c] # BULLET

\* the enemy bullets that find a player bullet in their destination when the
\* enemy pass runs: the player pass has moved it there from one row lower
C28_Blocked(g) ==
    {k \in 24..63 : /\ g[k \div 8][k % 8] = ENEMY_BULLET
                    /\ g[(k \div 8) - 1][k % 8] = EMPTY
                    /\ g[(k \div 8) - 2][k % 8] = BULLET}

\* C28: in a due tick that does not end the game, an enemy bullet whose
\* destination holds a player bullet is removed and the player bullet stays;
\* an enemy that no player bullet stands below keeps its tier; the player
\* bullets that leave the grid are those that hit, intercept or stand in row 7;
\* score and kills change by the hits and intercepts of the player pass only
C28_BlockedBulletOnlyRemoved ==
    [][(BulletTickStep /\ gameovers' = 0) =>
        /\ \A k \in C28_Blocked(grid) :
              /\ grid'[k \div 8][k % 8] = EMPTY
              /\ grid'[(k \div 8) - 1][k % 8] = BULLET
        /\ \A r \in 1..7, c \in Cols :
              (grid[r][c] \in Enemies /\ grid[r - 1][c] # BULLET) => grid'[r][c] = grid[r][c]
        /\ CountAll(grid', BULLET) =
              CountAll(grid, BULLET) - Cardinality(C4_Hits(grid))
                 - Cardinality(C27_Intercepts(grid))
                 - Cardinality({c \in Cols : grid[7][c] = BULLET})
        /\ (\A c \in Cols : grid[7][c] # BULLET) =>
              /\ score' = score + wave * C27_Units(grid, 8)
              /\ kills' = kills + Cardinality(C4_Hits(grid))
    ]_vars

\* a due tick is about to run with an enemy bullet two rows above a player
\* bullet and the cell between them Empty
C28_Witness ==
    /\ pc = "advanceBullet"
    /\ BulletDue
    /\ C28_Blocked(grid) # {}

\* C29: in a due tick that does not end the game, a player bullet in row 7 is
\* removed and its removal changes neither score nor kills: they change by the
\* hits and intercepts of the bullets of rows 1..6 only
C29_FarRowBulletJustRemoved ==
    [][(BulletTickStep /\ gameovers' = 0 /\ \E c \in Cols : grid[7][c] = BULLET) =>
        /\ \A c \in Cols : grid[7][c] = BULLET => grid'[7][c] = EMPTY
        /\ score' = score + wave * C27_Units(grid, 8)
        /\ kills' = kills + Cardinality(C4_Hits(grid))
    ]_vars

\* C30: a cell that a step of the loop leaves holding a player bullet or an
\* enemy bullet it did not hold before held Empty when the bullet was written:
\* it held Empty before the step and, for an enemy bullet moved by a tick, the
\* player pass of that tick (which runs first) moved no player bullet into it
C30_BulletsEnterEmptyCells ==
    [][\A r \in Rows, c \in Cols :
          /\ (grid'[r][c] = BULLET /\ grid[r][c] # BULLET) => grid[r][c] = EMPTY
          /\ (grid'[r][c] = ENEMY_BULLET /\ grid[r][c] # ENEMY_BULLET) =>
                /\ grid[r][c] = EMPTY
                /\ (pc = "advanceBullet" /\ r >= 1) => grid[r - 1][c] # BULLET
      ]_vars

\* the reload timer has just put a bullet in row 1 while an earlier player
\* bullet and an enemy bullet, both moved by ticks, are in flight
C30_Witness ==
    /\ pc = "advanceBullet"
    /\ lastShotTime = currentTime
    /\ grid[1][cursorX] = BULLET
    /\ \E r \in 2..7, c \in Cols : grid[r][c] = BULLET
    /\ \E r \in 0..3, c \in Cols : grid[r][c] = ENEMY_BULLET

\* ---------------------------------------------------------------------- C22
\* the count of the wave less the kills made, less the hits the enemies on the
\* grid still need
C22_RowHits(line) ==
    ChainHits(line[0]) + ChainHits(line[1]) + ChainHits(line[2]) + ChainHits(line[3])
    + ChainHits(line[4]) + ChainHits(line[5]) + ChainHits(line[6]) + ChainHits(line[7])

C22_GridHits(g) ==
    C22_RowHits(g[0]) + C22_RowHits(g[1]) + C22_RowHits(g[2]) + C22_RowHits(g[3])
    + C22_RowHits(g[4]) + C22_RowHits(g[5]) + C22_RowHits(g[6]) + C22_RowHits(g[7])

C22_Margin == enemies - kills - C22_GridHits(grid)

RECURSIVE C31_EnemyRowsDown(_, _, _)
C31_EnemyRowsDown(st, row, below) ==
    IF row < 0 THEN st
    ELSE C31_EnemyRowsDown(EnemyCols(st, row, 0, below), row - 1, below)

\* C31: in a bullet-advance tick the player pass visits the rows from row 0 up
\* to row 7, then the enemy pass visits them from row 7 down to row 0: the
\* grid a due tick leaves is the grid those two scans, run one after the other
\* in that order, leave.
C31_PassesScanAsStated ==
    [][(BulletTickStep /\ gameovers' = 0) =>
          \E above \in OobReads(grid, 7, BULLET, OobBytes) :
          \E below \in OobReads(grid, 0, ENEMY_BULLET, {EMPTY, CURSOR}) :
             grid' = Cleanup(C31_EnemyRowsDown(PlayerPassUp(Machine, above), 7, below)).g
      ]_vars

\* ---------------------------------------------------------------------- C32
\* C32: updateLeds reads the grid only between bullet-advance ticks: a due
\* call of advanceBullet, from the start of its two passes to the end of its
\* cleanup, makes no call of updateLeds, the Loss path included.
C32_NoRenderInsideScan ==
    [][BulletTickStep => renders' = 0]_vars

\* ---------------------------------------------------------------------- C33
\* C33: a call of enemyShoot changes a grid cell only to put an enemy bullet
\* into it, only when the enemy-fire timer is due, and only into an Empty cell
\* whose neighbour one row farther from the player holds a TierB, TierC or
\* TierD enemy (never a TierA); in every other step an enemy bullet appears in
\* a cell only by advanceBullet moving it there from the row above.
C33_EnemyBulletsOnlyFromShooters ==
    [][\A r \in Rows, c \in Cols :
          /\ (pc = "enemyShoot" /\ grid'[r][c] # grid[r][c]) =>
                /\ EnemyShotDue
                /\ grid'[r][c] = ENEMY_BULLET
                /\ grid[r][c] = EMPTY
                /\ r < 7
                /\ grid[r + 1][c] \in Shooters
          /\ (pc # "enemyShoot" /\ grid'[r][c] = ENEMY_BULLET
                                /\ grid[r][c] # ENEMY_BULLET) =>
                /\ BulletTickStep
                /\ r < 7
                /\ grid[r + 1][c] = ENEMY_BULLET
      ]_vars

\* enemyShoot has just fired from a TierB enemy of row 5
C33_Witness ==
    /\ pc = "progress"
    /\ lastEnemyShotTime = currentTime
    /\ currentTime > 0
    /\ \E c \in Cols : grid[5][c] = ENEMY_B /\ grid[4][c] = ENEMY_BULLET

\* ---------------------------------------------------------------------- C34
\* C34: in every state at the end of a pass of loop(), enemies - kills equals
\* the hits the enemies on the grid still need (1 per TierA or TierB, 2 per
\* TierC, 3 per TierD); so kills never exceeds enemies, and kills >= enemies
\* holds exactly when no enemy is on the grid.
C34_BudgetMatchesGrid ==
    pc = "advanceBullet" =>
        /\ enemies - kills = C22_GridHits(grid)
        /\ kills <= enemies
        /\ (kills >= enemies) <=> (\A r \in Rows, c \in Cols : grid[r][c] \notin Enemies)

\* ---------------------------------------------------------------------- C35
\* C35: a call of advanceBullet calls gameover only in a due tick that starts
\* with an enemy bullet in row 0 or row 1 of the cursor's column; the only
\* other step that calls gameover is the progression step, on a cleared wave
\* whose increment takes the wave number past the cap.
C35_LossOnlyFromCursorColumn ==
    [][gameovers' > 0 =>
          \/ /\ BulletTickStep
             /\ \E r \in {0, 1} : grid[r][cursorX] = ENEMY_BULLET
          \/ /\ pc = "progress"
             /\ WaveCleared(kills, enemies)
             /\ OverCap(wave + 1)
      ]_vars

\* the enemy pass of the tick just made has called gameover
C35_Witness ==
    /\ pc = "updateLeds"
    /\ lastShootMoveTime = currentTime
    /\ gameovers = 1
    /\ sessions = 1
    /\ wave = 0

\* ---------------------------------------------------------------------- C36
\* C36: no bullet gets stuck.  A bullet on the grid has been through at most 7
\* bullet-advance ticks, so it is gone within 8 ticks of its creation; and
\* every tick it has been through has moved it one row on: a player bullet,
\* created in row 1, stands in row 1 + age, an enemy bullet, created in row 6
\* or nearer the player, stands in row 6 - age or nearer.
C36_BulletsGoneWithinEightTicks ==
    \A r \in Rows, c \in Cols :
        /\ age[r][c] <= Cardinality(Rows) - 1
        /\ grid[r][c] = BULLET => r = 1 + age[r][c]
        /\ grid[r][c] = ENEMY_BULLET => r <= 6 - age[r][c]

\* a player bullet has reached row 7 through six ticks while an enemy bullet is
\* on its way
C36_Witness ==
    /\ \E c \in Cols : grid[7][c] = BULLET /\ age[7][c] = 6
    /\ \E r \in Rows, c \in Cols : grid[r][c] = ENEMY_BULLET /\ age[r][c] >= 1

\* ---------------------------------------------------------------------- C37
C37_EnemyOn(g) == \E r \in Rows, c \in Cols : g[r][c] \in Enemies

\* C37: whenever an enemy is on the grid the wave number is at least 1; so a
\* due tick that starts with enemies on the grid and a player bullet under an
\* enemy or under an enemy bullet raises the score, unless it ends the game;
\* and no step that does not end the game lowers the score.
C37_AwardsPositive ==
    [][/\ C37_EnemyOn(grid') => wave' >= 1
       /\ gameovers' = 0 => score' >= score
       /\ (/\ BulletTickStep
           /\ gameovers' = 0
           /\ C37_EnemyOn(grid)
           /\ (C4_Hits(grid) # {} \/ C27_Intercepts(grid) # {})) => score' > score
      ]_vars

\* a tick of wave 1 has just scored a hit and enemies are left
C37_Witness ==
    /\ pc = "updateLeds"
    /\ lastShootMoveTime = currentTime
    /\ wave = 1
    /\ score >= 10
    /\ kills >= 1
    /\ C37_EnemyOn(grid)

\* ---------------------------------------------------------------------- C38
\* C38: cursorX stays within 0..7 whatever the joystick reads; and a player
\* bullet appears in a cell that held none only in row 1 of the column the
\* cursor is in after the cursor step that fires it, or, in a due tick, one
\* row on from a cell that held a player bullet (a move, not a creation).
C38_CursorInsideAndFiresAbove ==
    [][/\ cursorX' \in Cols
       /\ \A r \in Rows, c \in Cols :
             (grid'[r][c] = BULLET /\ grid[r][c] # BULLET) =>
                 \/ pc = "moveAndFire" /\ r = 1 /\ c = cursorX'
                 \/ BulletTickStep /\ r >= 2 /\ grid[r - 1][c] = BULLET
      ]_vars

\* the cursor has been at the left edge through a further cursor step after it
\* fired from there
C38_Witness ==
    /\ cursorX = 0
    /\ grid[2][0] = BULLET
    /\ lastMoveTime > lastShotTime
    /\ decrements = CURSOR_START

====
